---- MODULE Spec2Model ----
(***************************************************************************)
(* Virtual boosted pool routing of the Balancer V2 adapter                 *)
(* (VirtualBoostedPool: createPools, parsePoolPairData, checkBalance,      *)
(* getSwapData), as exercised by the VirtualBoostedPools test suite.       *)
(*                                                                         *)
(* JavaScript strings are sequences of one-character strings, so that      *)
(* toLowerCase, concatenation and split act on characters.  Addresses are  *)
(* abbreviated to "0x" plus their first two hex digits and pool ids to the *)
(* abbreviated address plus the last two hex digits of the id.             *)
(***************************************************************************)
EXTENDS Integers, Sequences, FiniteSets, TLC

VARIABLES pools, virtualBoostedPools, call, ret

vars == <<pools, virtualBoostedPools, call, ret>>

-----------------------------------------------------------------------------
(* Strings *)

\* String.prototype.toLowerCase on one character.
LowerChar(c) ==
  CASE c = "A" -> "a" [] c = "B" -> "b" [] c = "C" -> "c" [] c = "D" -> "d"
    [] c = "E" -> "e" [] c = "F" -> "f" [] c = "L" -> "l" [] c = "P" -> "p"
    [] c = "S" -> "s" [] c = "V" -> "v" [] OTHER -> c

toLowerCase(s) == [i \in 1..Len(s) |-> LowerChar(s[i])]

\* The positions at which sep occurs in s.
Occurrences(s, sep) ==
  {i \in 1..Len(s) : i + Len(sep) - 1 <= Len(s) /\ SubSeq(s, i, i + Len(sep) - 1) = sep}

\* s.split(sep)[0]: the part of s before the first occurrence of sep, all of s
\* when sep does not occur.
SplitFirst(s, sep) ==
  LET occ == Occurrences(s, sep)
  IN IF occ = {} THEN s
     ELSE SubSeq(s, 1, (CHOOSE i \in occ : \A j \in occ : i <= j) - 1)

-----------------------------------------------------------------------------
(* Constants of the test suite *)

\* VirtualBoostedPool.poolType
poolType == <<"V","i","r","t","u","a","l","B","o","o","s","t","e","d">>

StablePhantom == <<"S","t","a","b","l","e","P","h","a","n","t","o","m">>
AaveLinear == <<"A","a","v","e","L","i","n","e","a","r">>

\* 0x7b50775383d3d6f0215a8f290f2c9e2eebbeceb2 and its pool id (...00fe)
bbausdAddr == <<"0","x","7","b">>
bbausdId == <<"0","x","7","b","f","e">>

\* tokens[...] of tests/constants-e2e, as the test compares them with the fixture
USDT == <<"0","x","d","a">>
DAI == <<"0","x","6","b">>
USDC == <<"0","x","a","0">>
WETH == <<"0","x","c","0">>

LinearUSDT == <<"0","x","2","b">>
LinearDAI == <<"0","x","8","0">>
LinearUSDC == <<"0","x","9","2">>

Tok(a, d) == [address |-> a, decimals |-> d]

Pool(id, addr, type, toks, mi, wi) ==
  [id |-> id, address |-> addr, poolType |-> type, tokens |-> toks,
   mainIndex |-> mi, wrappedIndex |-> wi]

bbausdPhantom ==
  Pool(bbausdId, bbausdAddr, StablePhantom,
       <<Tok(LinearUSDT, 18), Tok(bbausdAddr, 18), Tok(LinearDAI, 18), Tok(LinearUSDC, 18)>>,
       0, 0)

bbausdLinearUSDC ==
  Pool(LinearUSDC \o <<"f","c">>, LinearUSDC, AaveLinear,
       <<Tok(LinearUSDC, 18), Tok(USDC, 6), Tok(<<"0","x","d","0">>, 6)>>, 1, 2)

bbausdLinearDAI ==
  Pool(LinearDAI \o <<"f","b">>, LinearDAI, AaveLinear,
       <<Tok(<<"0","x","0","2">>, 18), Tok(DAI, 18), Tok(LinearDAI, 18)>>, 1, 0)

bbausdLinearUSDT ==
  Pool(LinearUSDT \o <<"f","d">>, LinearUSDT, AaveLinear,
       <<Tok(LinearUSDT, 18), Tok(USDT, 6), Tok(<<"0","x","f","8">>, 6)>>, 1, 2)

bbausdBoostedPools ==
  <<bbausdPhantom, bbausdLinearUSDC, bbausdLinearDAI, bbausdLinearUSDT>>

-----------------------------------------------------------------------------
(* Further physical pools the metadata provider may deliver: a second       *)
(* boosted pool, whose linear pool wraps WETH (main token stored in          *)
(* checksum case, 0xC0).                                                    *)

WETHChecksum == <<"0","x","C","0">>
DAIChecksum == <<"0","x","6","B">>

phantom2Addr == <<"0","x","3","c">>
phantom2Id == <<"0","x","3","c","0","1">>
LinearWETH == <<"0","x","4","d">>
LinearGone == <<"0","x","5","e">>

phantom2 ==
  Pool(phantom2Id, phantom2Addr, StablePhantom,
       <<Tok(LinearGone, 18), Tok(LinearWETH, 18), Tok(phantom2Addr, 18)>>, 0, 0)

linearWETH ==
  Pool(LinearWETH \o <<"0","2">>, LinearWETH, AaveLinear,
       <<Tok(LinearWETH, 18), Tok(<<"0","x","0","3">>, 18), Tok(WETHChecksum, 18)>>, 2, 1)

-----------------------------------------------------------------------------
(* VirtualBoostedPool.createPools *)

IsLinear(p) == p.poolType = AaveLinear

IsPhantom(p) == p.poolType = StablePhantom

HasToken(p, addr) == \E i \in 1..Len(p.tokens) : p.tokens[i].address = addr

NoPool == Pool(<<>>, <<>>, <<>>, <<>>, 0, 0)

\* The phantom pool of the batch whose token list holds the linear pool's own
\* pool token; NoPool when the batch has none.
PhantomOf(lp, batch) ==
  LET found == SelectSeq(batch, LAMBDA p : IsPhantom(p) /\ HasToken(p, lp.address))
  IN IF found = <<>> THEN NoPool ELSE Head(found)

\* The main-token descriptor of a linear pool.
MainToken(lp) ==
  [address |-> lp.tokens[lp.mainIndex + 1].address,
   decimals |-> lp.tokens[lp.mainIndex + 1].decimals,
   linearPoolAddr |-> lp.address,
   linearPoolId |-> lp.id]

RECURSIVE Flatten(_)
Flatten(ss) == IF ss = <<>> THEN <<>> ELSE Head(ss) \o Flatten(Tail(ss))

\* The linear pools of the batch that resolve to phantom pool p.
LinearPoolsOf(p, batch) ==
  SelectSeq(batch, LAMBDA lp : IsLinear(lp) /\ PhantomOf(lp, batch) = p)

\* The position of a linear pool's pool token in the phantom pool's token list.
TokenPosition(p, lp) ==
  CHOOSE i \in 1..Len(p.tokens) :
    /\ p.tokens[i].address = lp.address
    /\ \A j \in 1..(i - 1) : p.tokens[j].address # lp.address

\* The group's linear pools at position i of the phantom pool's token list.
GroupAt(p, group, i) == SelectSeq(group, LAMBDA lp : TokenPosition(p, lp) = i)

\* Mutant: the main tokens in the order of the linear pools in the batch.
MainTokensBatchOrder(p, batch) ==
  LET group == LinearPoolsOf(p, batch)
  IN [k \in 1..Len(group) |-> MainToken(group[k])]

\* The main tokens of the linear pools grouped under p, in the order in which
\* their pool tokens occur in p's token list.
MainTokensOf(p, batch) ==
  LET group == LinearPoolsOf(p, batch)
      sorted == Flatten([i \in 1..Len(p.tokens) |-> GroupAt(p, group, i)])
  IN [k \in 1..Len(sorted) |-> MainToken(sorted[k])]

\* The phantom pools the linear pools of the batch resolve to, in batch order.
DiscoveredPhantoms(batch) ==
  SelectSeq(batch, LAMBDA p : IsPhantom(p) /\ LinearPoolsOf(p, batch) # <<>>)

\* The suffix of a virtual pool's id and address.
Suffix == toLowerCase(poolType)

\* Mutant: the entry keyed like the descriptor, by id and suffix.
DictKeyWithSuffix(p) == p.id \o Suffix

\* The dictionary key of a phantom pool's entry.
DictKey(p) == p.id

VirtualPoolInfo(p, batch) == [mainTokens |-> MainTokensOf(p, batch)]

\* Mutant: the descriptor keeps the phantom pool's address as it is.
SubgraphPoolPlainAddress(p, batch) ==
  LET mt == MainTokensOf(p, batch)
  IN [id |-> p.id \o Suffix,
      address |-> p.address,
      poolType |-> poolType,
      tokens |-> [k \in 1..Len(mt) |-> Tok(mt[k].address, mt[k].decimals)],
      mainIndex |-> 0,
      wrappedIndex |-> 0]

\* The descriptor listed for a phantom pool's virtual pool.
SubgraphPool(p, batch) ==
  LET mt == MainTokensOf(p, batch)
  IN [id |-> p.id \o Suffix,
      address |-> p.address \o Suffix,
      poolType |-> poolType,
      tokens |-> [k \in 1..Len(mt) |-> Tok(mt[k].address, mt[k].decimals)],
      mainIndex |-> 0,
      wrappedIndex |-> 0]

\* Mutant: a linear pool whose phantom pool is not in the batch is fatal, and
\* no snapshot is built.
createPoolsStrict(batch) ==
  LET ph == DiscoveredPhantoms(batch)
      keys == {DictKey(ph[i]) : i \in 1..Len(ph)}
      first(k) == ph[CHOOSE i \in 1..Len(ph) :
                       DictKey(ph[i]) = k /\ \A j \in 1..(i - 1) : DictKey(ph[j]) # k]
      fatal == \E i \in 1..Len(batch) :
                 IsLinear(batch[i]) /\ PhantomOf(batch[i], batch) = NoPool
  IN IF fatal THEN [dictionary |-> <<>>, subgraph |-> <<>>]
     ELSE [dictionary |-> [k \in keys |-> VirtualPoolInfo(first(k), batch)],
           subgraph |-> [i \in 1..Len(ph) |-> SubgraphPool(ph[i], batch)]]

createPools(batch) ==
  LET ph == DiscoveredPhantoms(batch)
      keys == {DictKey(ph[i]) : i \in 1..Len(ph)}
      first(k) == ph[CHOOSE i \in 1..Len(ph) :
                       DictKey(ph[i]) = k /\ \A j \in 1..(i - 1) : DictKey(ph[j]) # k]
  IN [dictionary |-> [k \in keys |-> VirtualPoolInfo(first(k), batch)],
      subgraph |-> [i \in 1..Len(ph) |-> SubgraphPool(ph[i], batch)]]

-----------------------------------------------------------------------------
(* Results of a call: a thrown Error or a returned value *)

NoValue == [none |-> TRUE]

Throw(msg) == [error |-> msg, value |-> NoValue]

Return(v) == [error |-> "", value |-> v]

\* Mutant: another message for an unknown id.
ErrInvalidIdOther == "Invalid VirtualPool ID"

ErrInvalidId == "Invalid VirtualBoostedPool ID"
ErrTokenMissing == "Token missing"
ErrUnknownPool == "UnknownVirtualPool"

\* MAX_INT of the adapter's constants: 2^256 - 1 as a decimal string.
MAX_INT == "115792089237316195423570985008687907853269984665640564039457584007913129639935"

-----------------------------------------------------------------------------
(* VirtualBoostedPool.getSwapData *)

\* Mutant: the id is looked up as given.
LookupKeyVerbatim(virtualPoolId) == virtualPoolId

\* The id a virtual pool is looked up by: the id with the suffix stripped.
LookupKey(virtualPoolId) == SplitFirst(virtualPoolId, Suffix)

\* Case-insensitive address match.
SameAddress(a, b) == toLowerCase(a) = toLowerCase(b)

\* The indexes of the main tokens whose address matches token.
Matches(mainTokens, token) ==
  {i \in 1..Len(mainTokens) : SameAddress(mainTokens[i].address, token)}

IsMainToken(mainTokens, token) == Matches(mainTokens, token) # {}

\* mainTokens.find(t => t.address matches token): the first match,
\* undefined when it finds none.
Undefined == [undefined |-> TRUE]

FindMainToken(mainTokens, token) ==
  LET m == Matches(mainTokens, token)
  IN IF m = {} THEN Undefined ELSE mainTokens[CHOOSE i \in m : \A j \in m : i <= j]

\* Mutant: only tokenIn is looked for.
TokenInMissing(mainTokens, tokenIn, tokenOut) == ~IsMainToken(mainTokens, tokenIn)

\* Either token is missing from the main-token list.
TokenMissing(mainTokens, tokenIn, tokenOut) ==
  ~IsMainToken(mainTokens, tokenIn) \/ ~IsMainToken(mainTokens, tokenOut)

SwapStep(poolId, inIndex, outIndex, amount) ==
  [poolId |-> poolId, assetInIndex |-> inIndex, assetOutIndex |-> outIndex,
   amount |-> amount, userData |-> "0x"]

\* Mutant: every step carries the requested amount.
SwapsAllAmounts(inInfo, outInfo, phantomPoolId, amount) ==
  <<SwapStep(inInfo.linearPoolId, 0, 1, amount),
    SwapStep(phantomPoolId, 1, 2, amount),
    SwapStep(outInfo.linearPoolId, 2, 3, amount)>>

\* The three hops: linear pool of tokenIn, phantom pool, linear pool of tokenOut.
Swaps(inInfo, outInfo, phantomPoolId, amount) ==
  <<SwapStep(inInfo.linearPoolId, 0, 1, amount),
    SwapStep(phantomPoolId, 1, 2, "0"),
    SwapStep(outInfo.linearPoolId, 2, 3, "0")>>

\* Mutant: the two linear pool tokens in the wrong order.
AssetsOutFirst(tokenIn, inInfo, outInfo, tokenOut) ==
  <<tokenIn, outInfo.linearPoolAddr, inInfo.linearPoolAddr, tokenOut>>

Assets(tokenIn, inInfo, outInfo, tokenOut) ==
  <<tokenIn, inInfo.linearPoolAddr, outInfo.linearPoolAddr, tokenOut>>

\* Mutant: one limit per swap step instead of one per asset.
LimitsPerSwap(assets) == [i \in 1..(Len(assets) - 1) |-> MAX_INT]

\* One unbounded limit per asset.
Limits(assets) == [i \in 1..Len(assets) |-> MAX_INT]

\* Reading a property of undefined throws a TypeError.
ErrTypeError == "TypeError"

SwapPlan(mainTokens, tokenIn, tokenOut, phantomPoolId, amount) ==
  LET inInfo == FindMainToken(mainTokens, tokenIn)
      outInfo == FindMainToken(mainTokens, tokenOut)
      assets == Assets(tokenIn, inInfo, outInfo, tokenOut)
  IN IF inInfo = Undefined \/ outInfo = Undefined THEN Throw(ErrTypeError)
     ELSE Return([assets |-> assets,
                  swaps |-> Swaps(inInfo, outInfo, phantomPoolId, amount),
                  limits |-> Limits(assets)])

getSwapData(tokenIn, tokenOut, virtualPoolId, amount, dictionary) ==
  LET key == LookupKey(virtualPoolId)
  IN IF key \notin DOMAIN dictionary THEN Throw(ErrInvalidId)
     ELSE IF TokenMissing(dictionary[key].mainTokens, tokenIn, tokenOut)
          THEN Throw(ErrTokenMissing)
          ELSE SwapPlan(dictionary[key].mainTokens, tokenIn, tokenOut, key, amount)

-----------------------------------------------------------------------------
(* VirtualBoostedPool.parsePoolPairData *)

parsePoolPairData(pool, tokenIn, tokenOut, dictionary) ==
  LET phantomPoolId == LookupKey(pool.id)
  IN IF phantomPoolId \notin DOMAIN dictionary THEN Throw(ErrUnknownPool)
     ELSE Return([tokenIn |-> tokenIn, tokenOut |-> tokenOut,
                  phantomPoolId |-> phantomPoolId])

-----------------------------------------------------------------------------
(* VirtualBoostedPool.checkBalance *)

\* Mutant: a requested amount of 0 is taken to be always satisfiable.
checkBalanceZeroUsable(balances, amount, side, poolPairData) ==
  IF amount = 0 THEN {TRUE} ELSE IF balances = <<>> THEN {FALSE} ELSE BOOLEAN

\* The results checkBalance can give.  With no balance information the pool
\* is not usable; what decides a non-empty balance list is not specified, so
\* either result is possible there.
checkBalance(balances, amount, side, poolPairData) ==
  IF balances = <<>> THEN {FALSE} ELSE BOOLEAN

-----------------------------------------------------------------------------
(* Inputs *)

\* The longest batch of physical pools drawn from PoolUniverse.
MaxBatch == 3

\* The largest balance and requested amount given to checkBalance.
MaxAmount == 1

\* The longest balance list given to checkBalance.
MaxBalances == 1

PoolUniverse ==
  {bbausdPhantom, bbausdLinearUSDC, bbausdLinearDAI, phantom2, linearWETH}

\* The sequences of at most n distinct elements of S.
DistinctSeqs(S, n) ==
  UNION {{q \in [1..k -> S] : \A i, j \in 1..k : i # j => q[i] # q[j]} : k \in 0..n}

\* A batch with both boosted pools, linear pools listed before their phantom pool.
twoBoostedPools ==
  <<linearWETH, bbausdLinearUSDC, phantom2, bbausdPhantom, bbausdLinearDAI>>

Batches ==
  {bbausdBoostedPools, twoBoostedPools} \cup DistinctSeqs(PoolUniverse, MaxBatch)

Tokens == {DAI, DAIChecksum, USDC, WETH}

wrongid == <<"w","r","o","n","g","i","d">>

PoolIds ==
  {bbausdId, bbausdId \o Suffix, phantom2Id \o Suffix, wrongid,
   bbausdLinearDAI.id \o Suffix}

\* The requested amounts given to getSwapData, as decimal strings.
Amounts == {"0", "1", "1000000000000000000"}

\* A descriptor that createPools did not emit.
unknownPool ==
  [id |-> wrongid \o Suffix, address |-> wrongid \o Suffix, poolType |-> poolType,
   tokens |-> <<Tok(DAI, 18), Tok(USDC, 6)>>, mainIndex |-> 0, wrappedIndex |-> 0]

Descriptors(vbp) == {vbp.subgraph[i] : i \in 1..Len(vbp.subgraph)} \cup {unknownPool}

BalanceLists == UNION {[1..k -> 0..MaxAmount] : k \in 0..MaxBalances}

Sides == {"SELL", "BUY"}

\* The token pairs whose pair context is handed to checkBalance.
GatePairs == {<<DAI, USDC>>}

-----------------------------------------------------------------------------
(* State machine *)

NoCall ==
  [op |-> "none", pool |-> NoPool, tokenIn |-> <<>>, tokenOut |-> <<>>,
   poolId |-> <<>>, amount |-> "", balances |-> <<>>, total |-> 0, side |-> ""]

NoRet == Return(NoValue)

\* beforeAll: the snapshot is created from the bbausd subgraph data.
Init ==
  /\ pools = bbausdBoostedPools
  /\ virtualBoostedPools = createPools(bbausdBoostedPools)
  /\ call = NoCall
  /\ ret = NoRet

Idle == call.op = "none"

\* Mutant: a refresh adds to a registry that keeps the entries of earlier
\* batches.
CreatePoolsKeeping(batch) ==
  LET old == virtualBoostedPools.dictionary
      new == createPools(batch)
  IN /\ Idle
     /\ pools' = batch
     /\ virtualBoostedPools' =
          [dictionary |-> [k \in DOMAIN new.dictionary \cup DOMAIN old |->
                             IF k \in DOMAIN new.dictionary THEN new.dictionary[k]
                             ELSE old[k]],
           subgraph |-> new.subgraph]
     /\ UNCHANGED <<call, ret>>

\* A refresh cycle: the snapshot is rebuilt from a fresh batch.
CreatePools(batch) ==
  /\ Idle
  /\ pools' = batch
  /\ virtualBoostedPools' = createPools(batch)
  /\ UNCHANGED <<call, ret>>

GetSwapData(tokenIn, tokenOut, virtualPoolId, amount) ==
  /\ Idle
  /\ call' = [NoCall EXCEPT !.op = "getSwapData", !.tokenIn = tokenIn,
                            !.tokenOut = tokenOut, !.poolId = virtualPoolId,
                            !.amount = amount]
  /\ ret' = getSwapData(tokenIn, tokenOut, virtualPoolId, amount,
                        virtualBoostedPools.dictionary)
  /\ UNCHANGED <<pools, virtualBoostedPools>>

ParsePoolPairData(pool, tokenIn, tokenOut) ==
  /\ Idle
  /\ call' = [NoCall EXCEPT !.op = "parsePoolPairData", !.pool = pool,
                            !.tokenIn = tokenIn, !.tokenOut = tokenOut]
  /\ ret' = parsePoolPairData(pool, tokenIn, tokenOut, virtualBoostedPools.dictionary)
  /\ UNCHANGED <<pools, virtualBoostedPools>>

\* checkBalance on the pair context parsePoolPairData gave for the pool.
CheckBalance(balances, amount, side, pool, pair) ==
  LET ppd == parsePoolPairData(pool, pair[1], pair[2], virtualBoostedPools.dictionary)
  IN /\ Idle
     /\ ppd.error = ""
     /\ call' = [NoCall EXCEPT !.op = "checkBalance", !.pool = pool,
                               !.tokenIn = pair[1], !.tokenOut = pair[2],
                               !.balances = balances, !.total = amount,
                               !.side = side]
     /\ \E r \in checkBalance(balances, amount, side, ppd.value) : ret' = Return(r)
     /\ UNCHANGED <<pools, virtualBoostedPools>>

\* The caller takes the result; the next call or refresh may follow.
Done ==
  /\ ~Idle
  /\ call' = NoCall
  /\ ret' = NoRet
  /\ UNCHANGED <<pools, virtualBoostedPools>>

Next ==
  \/ \E batch \in Batches : CreatePools(batch)
  \/ \E tokenIn \in Tokens, tokenOut \in Tokens, id \in PoolIds, amount \in Amounts :
       GetSwapData(tokenIn, tokenOut, id, amount)
  \/ \E pool \in Descriptors(virtualBoostedPools), tokenIn \in Tokens, tokenOut \in Tokens :
       ParsePoolPairData(pool, tokenIn, tokenOut)
  \/ \E balances \in BalanceLists, amount \in 0..MaxAmount, side \in Sides,
        pool \in Descriptors(virtualBoostedPools), pair \in GatePairs :
       CheckBalance(balances, amount, side, pool, pair)
  \/ Done

Spec == Init /\ [][Next]_vars

-----------------------------------------------------------------------------
(* Vocabulary of the properties *)

Dict == virtualBoostedPools.dictionary

Batch == {pools[i] : i \in 1..Len(pools)}

\* The lower-cased pool-type tag, written out.
SuffixLiteral == <<"v","i","r","t","u","a","l","b","o","o","s","t","e","d">>

\* The keys under which id names a dictionary entry: the id itself, or the id
\* of the descriptor listed for the entry.
KeysNamedBy(id) == {k \in DOMAIN Dict : id = k \/ id = k \o SuffixLiteral}

\* token is a main token of the entry under key k (addresses compared
\* case-insensitively).
MainOf(k, token) ==
  \E i \in 1..Len(Dict[k].mainTokens) :
    toLowerCase(Dict[k].mainTokens[i].address) = toLowerCase(token)

\* getSwapData was called for a known pool with two distinct main tokens of it.
ValidSwapRequest ==
  /\ call.op = "getSwapData"
  /\ \E k \in KeysNamedBy(call.poolId) : MainOf(k, call.tokenIn) /\ MainOf(k, call.tokenOut)
  /\ toLowerCase(call.tokenIn) # toLowerCase(call.tokenOut)

\* getSwapData returned a plan.
PlanReturned == call.op = "getSwapData" /\ ret.error = ""

\* C1: for a known virtual pool and two distinct main tokens of it, whatever
\* the amount, getSwapData returns a plan of 4 assets, 3 swaps and 4 limits;
\* every plan it returns has assets.length = swaps.length + 1 = limits.length.
C1_PlanShape ==
  /\ ValidSwapRequest =>
       /\ ret.error = ""
       /\ Len(ret.value.assets) = 4
       /\ Len(ret.value.swaps) = 3
       /\ Len(ret.value.limits) = 4
  /\ PlanReturned =>
       /\ Len(ret.value.assets) = Len(ret.value.swaps) + 1
       /\ Len(ret.value.assets) = Len(ret.value.limits)

C1_Witness ==
  /\ ValidSwapRequest
  /\ PlanReturned
  /\ pools # bbausdBoostedPools
  /\ call.poolId = bbausdId \o SuffixLiteral
  /\ call.amount = "1000000000000000000"

\* The steps of the returned plan that carry a nonzero amount.
NonzeroSteps == {i \in 1..Len(ret.value.swaps) : ret.value.swaps[i].amount # "0"}

\* C2 as stated: the first step carries the requested amount, the other two
\* the zero sentinel "0", and exactly one step carries a nonzero amount.
C2_Original ==
  PlanReturned =>
    /\ ret.value.swaps[1].amount = call.amount
    /\ ret.value.swaps[2].amount = "0"
    /\ ret.value.swaps[3].amount = "0"
    /\ Cardinality(NonzeroSteps) = 1

\* C2 as amended: the first step carries the requested amount exactly as
\* passed in, the other two the zero sentinel "0"; no step after the first
\* carries a nonzero amount, and the first does unless the requested amount
\* is itself "0".
C2_Amounts ==
  PlanReturned =>
    /\ ret.value.swaps[1].amount = call.amount
    /\ ret.value.swaps[2].amount = "0"
    /\ ret.value.swaps[3].amount = "0"
    /\ NonzeroSteps = IF call.amount = "0" THEN {} ELSE {1}

C2_Witness == PlanReturned /\ call.amount = "0" /\ NonzeroSteps = {}

\* The linear pools of the batch that wrap token and feed the phantom pool
\* with id k.
LinearPoolsWrapping(k, token) ==
  {lp \in Batch :
     /\ lp.poolType = AaveLinear
     /\ toLowerCase(lp.tokens[lp.mainIndex + 1].address) = toLowerCase(token)
     /\ \E p \in Batch :
          /\ p.poolType = StablePhantom
          /\ p.id = k
          /\ \E i \in 1..Len(p.tokens) : p.tokens[i].address = lp.address}

PairwiseDistinct(q) == \A i, j \in 1..Len(q) : i # j => q[i] # q[j]

\* C3: for two distinct main tokens of a known pool the plan's assets are
\* [tokenIn, linear pool of tokenIn, linear pool of tokenOut, tokenOut], four
\* distinct addresses; its steps are (linear pool id of tokenIn, 0, 1),
\* (phantom pool id, 1, 2), (linear pool id of tokenOut, 2, 3), each with
\* payload '0x' and each output index the next input index; every limit is
\* MAX_INT.
C3_Route ==
  ValidSwapRequest =>
    \E k \in KeysNamedBy(call.poolId) :
      \E lpIn \in LinearPoolsWrapping(k, call.tokenIn),
         lpOut \in LinearPoolsWrapping(k, call.tokenOut) :
        /\ ret.error = ""
        /\ ret.value.assets = <<call.tokenIn, lpIn.address, lpOut.address, call.tokenOut>>
        /\ PairwiseDistinct(ret.value.assets)
        /\ Len(ret.value.swaps) = 3
        /\ ret.value.swaps[1].poolId = lpIn.id
        /\ ret.value.swaps[2].poolId = k
        /\ ret.value.swaps[3].poolId = lpOut.id
        /\ \A i \in 1..3 :
             /\ ret.value.swaps[i].assetInIndex = i - 1
             /\ ret.value.swaps[i].assetOutIndex = i
             /\ ret.value.swaps[i].userData = "0x"
        /\ \A i \in 1..2 :
             ret.value.swaps[i].assetOutIndex = ret.value.swaps[i + 1].assetInIndex
        /\ \A i \in 1..Len(ret.value.limits) :
             ret.value.limits[i] =
               "115792089237316195423570985008687907853269984665640564039457584007913129639935"

\* The test's request, with tokenIn in checksum case: DAI -> USDC on bbausd.
C3_Witness ==
  /\ ValidSwapRequest
  /\ PlanReturned
  /\ pools = bbausdBoostedPools
  /\ call.tokenIn = DAIChecksum
  /\ call.tokenOut = USDC
  /\ ret.value.assets = <<DAIChecksum, LinearDAI, LinearUSDC, USDC>>

\* call.poolId with everything from the first occurrence of the suffix on
\* stripped.
StrippedPoolId == SplitFirst(call.poolId, SuffixLiteral)

\* C4 as stated: an id that is not a key of the dictionary makes getSwapData
\* fail with 'Invalid VirtualBoostedPool ID'.
C4_Original ==
  (call.op = "getSwapData" /\ call.poolId \notin DOMAIN Dict) =>
    ret.error = "Invalid VirtualBoostedPool ID"

\* C4 as amended: an id that, with the suffix stripped, is not a key of the
\* dictionary makes getSwapData fail with 'Invalid VirtualBoostedPool ID',
\* whatever the tokens and the amount, and no plan is returned.
C4_InvalidId ==
  (call.op = "getSwapData" /\ StrippedPoolId \notin DOMAIN Dict) =>
    /\ ret.error = "Invalid VirtualBoostedPool ID"
    /\ ret.value = NoValue

\* An unknown id with a token that is a main token of no pool.
C4_Witness ==
  /\ call.op = "getSwapData"
  /\ StrippedPoolId \notin DOMAIN Dict
  /\ DOMAIN Dict # {}
  /\ call.poolId = wrongid
  /\ \A k \in DOMAIN Dict : ~MainOf(k, call.tokenIn)
  /\ ret.error = "Invalid VirtualBoostedPool ID"

\* C5: for a known pool, getSwapData fails with 'Token missing' when tokenIn
\* or tokenOut is not a main token of it, and returns no plan.
C5_TokenMissing ==
  \A k \in KeysNamedBy(call.poolId) :
    (call.op = "getSwapData" /\ (~MainOf(k, call.tokenIn) \/ ~MainOf(k, call.tokenOut))) =>
      /\ ret.error = "Token missing"
      /\ ret.value = NoValue

\* tokenIn is a main token, tokenOut is not.
C5_Witness ==
  \E k \in KeysNamedBy(call.poolId) :
    /\ call.op = "getSwapData"
    /\ MainOf(k, call.tokenIn)
    /\ ~MainOf(k, call.tokenOut)
    /\ ret.error = "Token missing"

\* The linear pools of the batch whose pool-token address is addr.
LinearPoolsAt(addr) == {lp \in Batch : lp.poolType = AaveLinear /\ lp.address = addr}

\* The entry a linear pool contributes to a main-token list.
EntryOf(lp) ==
  [address |-> lp.tokens[lp.mainIndex + 1].address,
   decimals |-> lp.tokens[lp.mainIndex + 1].decimals,
   linearPoolAddr |-> lp.address,
   linearPoolId |-> lp.id]

\* Walking phantom pool p's token list from position i: one entry for each
\* token that is the pool token of a linear pool of the batch.
RECURSIVE ExpectedMainTokens(_, _)
ExpectedMainTokens(p, i) ==
  IF i > Len(p.tokens) THEN <<>>
  ELSE (IF LinearPoolsAt(p.tokens[i].address) = {} THEN <<>>
        ELSE <<EntryOf(CHOOSE lp \in LinearPoolsAt(p.tokens[i].address) : TRUE)>>)
       \o ExpectedMainTokens(p, i + 1)

PhantomPools == {p \in Batch : p.poolType = StablePhantom}

\* The phantom pools at least one linear pool of the batch feeds.
FedPhantomPools == {p \in PhantomPools : ExpectedMainTokens(p, 1) # <<>>}

\* The main-token list built for phantom pool p, empty when none was built.
BuiltMainTokens(p) ==
  IF p.id \in DOMAIN Dict THEN Dict[p.id].mainTokens ELSE <<>>

C7_Original ==
  \A p \in FedPhantomPools : p.id \o SuffixLiteral \in DOMAIN Dict

\* The descriptors listed.
Listed == {virtualBoostedPools.subgraph[i] : i \in 1..Len(virtualBoostedPools.subgraph)}

\* C7 as amended: there is exactly one entry per phantom pool discovered,
\* keyed by the phantom pool's id, without suffix; the descriptor id is that
\* key followed by the lower-cased pool-type tag, and getSwapData and
\* parsePoolPairData, given the descriptor id, find the entry by the id with
\* the suffix stripped.
C7_Keys ==
  /\ DOMAIN Dict = {p.id : p \in FedPhantomPools}
  /\ Cardinality(DOMAIN Dict) = Cardinality(FedPhantomPools)
  /\ {d.id : d \in Listed} = {k \o SuffixLiteral : k \in DOMAIN Dict}
  /\ (call.op = "getSwapData" /\ \E d \in Listed : d.id = call.poolId) =>
       ret.error # "Invalid VirtualBoostedPool ID"
  /\ (call.op = "parsePoolPairData" /\ call.pool \in Listed) =>
       /\ ret.error = ""
       /\ ret.value.phantomPoolId \in DOMAIN Dict
       /\ ret.value.phantomPoolId \o SuffixLiteral = call.pool.id

\* Two phantom pools discovered, and a plan compiled under a descriptor id.
C7_Witness ==
  /\ Cardinality(FedPhantomPools) = 2
  /\ PlanReturned
  /\ \E d \in Listed : d.id = call.poolId

\* The pool tokens and wrapped tokens of the batch.
HiddenTokens ==
  {p.address : p \in Batch}
    \cup {lp.tokens[lp.wrappedIndex + 1].address : lp \in {q \in Batch : q.poolType = AaveLinear}}

\* C8: there is exactly one descriptor per dictionary entry; its id and its
\* address are the phantom pool's id and address followed by the lower-cased
\* pool-type tag, its poolType is 'VirtualBoosted', and its tokens are the
\* (address, decimals) of the entry's main tokens in the same order, with no
\* wrapped token and no pool token among them.
C8_Descriptors ==
  /\ Len(virtualBoostedPools.subgraph) = Cardinality(DOMAIN Dict)
  /\ \A k \in DOMAIN Dict : Cardinality({d \in Listed : d.id = k \o SuffixLiteral}) = 1
  /\ \A d \in Listed :
       \E p \in FedPhantomPools :
         /\ p.id \in DOMAIN Dict
         /\ d.id = p.id \o SuffixLiteral
         /\ d.address = p.address \o SuffixLiteral
         /\ d.poolType = <<"V","i","r","t","u","a","l","B","o","o","s","t","e","d">>
         /\ Len(d.tokens) = Len(Dict[p.id].mainTokens)
         /\ \A i \in 1..Len(d.tokens) :
              /\ d.tokens[i] = [address |-> Dict[p.id].mainTokens[i].address,
                                decimals |-> Dict[p.id].mainTokens[i].decimals]
              /\ d.tokens[i].address \notin HiddenTokens

\* Two descriptors listed, one of them with several tokens.
C8_Witness ==
  /\ Cardinality(Listed) = 2
  /\ \E d \in Listed : Len(d.tokens) >= 2

\* C9 as stated: parsePoolPairData succeeds exactly when the descriptor's id
\* is a key of the dictionary, and fails with UnknownVirtualPool otherwise.
C9_Original ==
  call.op = "parsePoolPairData" =>
    /\ (ret.error = "") <=> (call.pool.id \in DOMAIN Dict)
    /\ ret.error \in {"", "UnknownVirtualPool"}

\* C9 as amended: parsePoolPairData succeeds exactly when the descriptor's id
\* with the suffix stripped is a key of the dictionary and fails with
\* UnknownVirtualPool otherwise; when it succeeds it returns tokenIn and
\* tokenOut unchanged and that stripped id as phantomPoolId, whether or not
\* the tokens are main tokens of the pool.
C9_PairData ==
  call.op = "parsePoolPairData" =>
    IF SplitFirst(call.pool.id, SuffixLiteral) \in DOMAIN Dict
    THEN /\ ret.error = ""
         /\ ret.value.tokenIn = call.tokenIn
         /\ ret.value.tokenOut = call.tokenOut
         /\ ret.value.phantomPoolId = SplitFirst(call.pool.id, SuffixLiteral)
    ELSE /\ ret.error = "UnknownVirtualPool"
         /\ ret.value = NoValue

\* A pair resolved although tokenIn is not a main token of the pool.
C9_Witness ==
  /\ call.op = "parsePoolPairData"
  /\ ret.error = ""
  /\ ret.value.phantomPoolId \in DOMAIN Dict
  /\ ~MainOf(ret.value.phantomPoolId, call.tokenIn)
  /\ MainOf(ret.value.phantomPoolId, call.tokenOut)

BatchIds == {p.id : p \in Batch}

\* Everything in the snapshot comes from the latest batch, and the snapshot is
\* what createPools yields for that batch.
SnapshotOfLatestBatch ==
  /\ virtualBoostedPools = createPools(pools)
  /\ DOMAIN Dict \subseteq BatchIds
  /\ \A k \in DOMAIN Dict :
       \A i \in 1..Len(Dict[k].mainTokens) : Dict[k].mainTokens[i].linearPoolId \in BatchIds
  /\ \A d \in Listed : \E id \in BatchIds : d.id = id \o SuffixLiteral

SkippedAt ==
  {i \in 1..Len(pools) :
     /\ pools[i].poolType = AaveLinear
     /\ \A p \in PhantomPools :
          \A j \in 1..Len(p.tokens) : p.tokens[j].address # pools[i].address}

\* The batch without the pool at position i.
BatchWithout(i) == SubSeq(pools, 1, i - 1) \o SubSeq(pools, i + 1, Len(pools))

\* C12: a linear pool whose pool token is in no phantom pool of the batch is
\* skipped: it gives no main token to any entry, no entry and no descriptor
\* is made for it, and the snapshot is the one the batch without it yields.
C12_Skipped ==
  \A i \in SkippedAt :
    /\ \A k \in DOMAIN Dict :
         \A j \in 1..Len(Dict[k].mainTokens) :
           /\ Dict[k].mainTokens[j].linearPoolId # pools[i].id
           /\ Dict[k].mainTokens[j].linearPoolAddr # pools[i].address
    /\ pools[i].id \notin DOMAIN Dict
    /\ \A d \in Listed : d.id # pools[i].id \o SuffixLiteral
    /\ virtualBoostedPools = createPools(BatchWithout(i))

\* A batch with a skipped linear pool listed before a boosted pool that is
\* built all the same.
C12_Witness ==
  /\ SkippedAt # {}
  /\ \E i \in SkippedAt : \E j \in 1..Len(pools) : i < j /\ pools[j].id \in DOMAIN Dict
  /\ Listed # {}

====
